---- MODULE Spec2Model ----
(***************************************************************************)
(* Model of the conversion pipeline of markdown_preview.py: Compiler.run   *)
(* and the stages it calls, for the four compiler classes                  *)
(* (MarkdownCompiler, GithubCompiler, GitlabCompiler,                      *)
(* ExternalMarkdownCompiler).                                              *)
(*                                                                         *)
(* Text is a sequence of tokens; each token stands for the character       *)
(* string it spells ("---", "...", "\n", "\r", a line of the form          *)
(* "k: v", a plain word "x").  Every regular expression of the source that *)
(* is modelled only tests fence strings and line breaks, so matching on    *)
(* tokens is matching on the characters they spell.                        *)
(***************************************************************************)
EXTENDS Integers, Sequences, FiniteSets, TLC

VARIABLES
    pc,          \* position inside Compiler.run
    backend,     \* the compiler class in use
    settings,    \* the values self.settings hands out during this run
    view,        \* the editor view: document text and first selection
    wholefile,   \* the wholefile argument of run
    contents,    \* the local `contents` of get_contents / run
    frontmatter, \* the result of preprocessor_yaml_frontmatter, as overlaid
    body,        \* markdown_html / body
    convs,       \* the locals image_convert, file_convert of convert_markdown
    rewrittenBy, \* per resource class, the path passes that were asked to rewrite it
    trace,       \* the stages executed so far, in order
    errors,      \* calls of sublime.error_message, in order
    status,      \* calls of sublime.status_message, in order
    procs,       \* child processes started, in order
    env,         \* the answers the files, the network and the processes gave
    exc,         \* the exception that left run ("none" while there is none)
    result,      \* what run returned
    editor,      \* the editor around the run: the view's settings, the preview
                 \* file, the plugin settings the commands read, what was run
    pipe         \* the external parser's process and its pipes, step by step

vars == <<pc, backend, settings, view, wholefile, contents, frontmatter, body,
          convs, rewrittenBy, trace, errors, status, procs, env, exc, result,
          editor, pipe>>

(***************************************************************************)
(* Bounds of the model.                                                    *)
(***************************************************************************)
\* the texts given to the front-matter extractor on its own: every text of at
\* most MaxPlain tokens, and an open fence line followed by at most MaxTail
MaxPlain == 4
MaxTail == 6
\* longest list of reference files in the settings
MaxRefs == 2
\* most headings in one HTML fragment given to the header-id injection
MaxHeadings == 3
\* lines of Markdown text streamed to an external parser
MaxLines == 5
\* lines a pipe between the plugin and the external parser holds
MaxCapacity == 2

(***************************************************************************)
(* Constants of the program.                                               *)
(***************************************************************************)
CANNOT_CONVERT == <<"cannot convert markdown">>

NL == "\n"
CR == "\r"
Tok == {"---", "...", NL, "k: v", "x"}

Backends == {"markdown", "github", "gitlab", "external"}
OnlineBackends == {"github", "gitlab"}
PathModes == {"absolute", "relative", "base64", "none"}
CriticModes == {"accept", "reject", "none"}

(***************************************************************************)
(* Sequence helpers.                                                       *)
(***************************************************************************)
At(t, i) == IF i \in 1..Len(t) THEN t[i] ELSE "<eof>"

Slice(t, a, b) == IF a > b THEN <<>> ELSE SubSeq(t, a, b)

\* \r?\n at position i: the number of tokens it consumes, 0 when it does not match
LineBreakAt(t, i) ==
    IF At(t, i) = NL THEN 1
    ELSE IF At(t, i) = CR /\ At(t, i + 1) = NL THEN 2
    ELSE 0

(***************************************************************************)
(* yaml_load on the block between the fences.  The block is split into     *)
(* lines; a line holding one "k: v" is a mapping entry, a line holding     *)
(* more than one is a syntax error, any other non-empty line is a plain    *)
(* scalar.  A document of entries is a mapping, an empty document is None, *)
(* a document of plain scalars is a string, a mixture is a syntax error.   *)
(***************************************************************************)
RECURSIVE SplitLines(_)
SplitLines(t) ==
    IF t = <<>> THEN <<>>
    ELSE LET brk == {i \in 1..Len(t) : t[i] = NL}
         IN  IF brk = {} THEN <<t>>
             ELSE LET i == CHOOSE j \in brk : \A k \in brk : j <= k
                  IN  <<Slice(t, 1, i - 1)>> \o SplitLines(Slice(t, i + 1, Len(t)))

Strip(line) == SelectSeq(line, LAMBDA c : c # CR)

Entries(line) == Len(SelectSeq(line, LAMBDA c : c = "k: v"))

LineKind(line) ==
    IF Strip(line) = <<>> THEN "blank"
    ELSE IF Entries(line) = 1 THEN "entry"
    ELSE IF Entries(line) > 1 THEN "bad"
    ELSE "scalar"

yaml_load(block) ==
    LET lines == SelectSeq(SplitLines(block), LAMBDA l : LineKind(l) # "blank")
        kinds == {LineKind(lines[i]) : i \in 1..Len(lines)}
    IN  IF kinds = {} THEN [kind |-> "null", value |-> <<>>]
        ELSE IF kinds = {"entry"} THEN [kind |-> "mapping", value |-> lines]
        ELSE IF kinds = {"scalar"} THEN [kind |-> "scalar", value |-> lines]
        ELSE [kind |-> "error", value |-> <<>>]

(***************************************************************************)
(* The regular expression of preprocessor_yaml_frontmatter:                *)
(*   ^(-{3}\r?\n(?!\r?\n)(.*?)(?<=\n)(?:-{3}|\.{3})\r?\n)   with DOTALL    *)
(***************************************************************************)
\* index of the last token of the open fence line, 0 when the text does not open
OpenEnd(t) ==
    IF At(t, 1) = "---" /\ LineBreakAt(t, 2) > 0 THEN 1 + LineBreakAt(t, 2) ELSE 0

\* (?!\r?\n): the line after the open fence is not empty
NotEmptyLineAt(t, i) == LineBreakAt(t, i) = 0

\* the places where the close fence can match: after a "\n", a fence, a line break
CloseAt(t, o) ==
    {c \in (o + 1)..Len(t) :
        /\ At(t, c - 1) = NL
        /\ t[c] \in {"---", "..."}
        /\ LineBreakAt(t, c + 1) > 0}

\* FrontMatterMatch with a greedy (.*): the last close fence ends the block
FrontMatterMatchGreedy(t) ==
    LET o == OpenEnd(t)
    IN  IF o = 0 \/ ~NotEmptyLineAt(t, o + 1) \/ CloseAt(t, o) = {}
        THEN [found |-> FALSE, group2 |-> <<>>, end1 |-> 0]
        ELSE LET c == CHOOSE j \in CloseAt(t, o) : \A k \in CloseAt(t, o) : j >= k
             IN  [found |-> TRUE,
                  group2 |-> Slice(t, o + 1, c - 1),
                  end1 |-> c + LineBreakAt(t, c + 1)]

\* the match object: (.*?) is lazy, so the first close fence ends the block
FrontMatterMatch(t) ==
    LET o == OpenEnd(t)
    IN  IF o = 0 \/ ~NotEmptyLineAt(t, o + 1) \/ CloseAt(t, o) = {}
        THEN [found |-> FALSE, group2 |-> <<>>, end1 |-> 0]
        ELSE LET c == CHOOSE j \in CloseAt(t, o) : \A k \in CloseAt(t, o) : j <= k
             IN  [found |-> TRUE,
                  group2 |-> Slice(t, o + 1, c - 1),
                  end1 |-> c + LineBreakAt(t, c + 1)]

EmptyFrontMatter == [kind |-> "mapping", value |-> <<>>]

\* YamlOkay without the isinstance assertion: any value that parses passes
YamlOkayNoAssert(y) == y.kind # "error"

\* whether the parsed value passes "None becomes an empty dictionary" and the
\* isinstance assertion, i.e. yaml_okay stays True
YamlOkay(y) == y.kind \in {"mapping", "null"}

preprocessor_yaml_frontmatter(text) ==
    LET m == FrontMatterMatch(text)
        y == yaml_load(m.group2)
    IN  IF At(text, 1) = "---" /\ m.found /\ YamlOkay(y)
        THEN [frontmatter |-> IF y.kind = "mapping" THEN y ELSE EmptyFrontMatter,
              text |-> Slice(text, m.end1 + 1, Len(text))]
        ELSE [frontmatter |-> EmptyFrontMatter, text |-> text]

(***************************************************************************)
(* The files, the network and the child processes the run meets.  Each is  *)
(* an answer of the environment, drawn when the code asks.                 *)
(***************************************************************************)
\* a reference file: readable, absent, or present but failing to open or decode
FileStates == {"ok", "missing", "unreadable"}

\* urlopen(request).read(): a response, an HTTPError, a URLError that is not an
\* HTTPError, or any other exception (a reset connection, a malformed reply)
NetOutcomes == {"ok", "http", "urlerror", "other"}
HttpCodes == {401, 403, 500}
\* the body of an HTTP error: a JSON object with "message", a JSON object
\* without it, or text that is not JSON (a proxy's error page)
ErrorBodies == {"json_message", "json_other", "not_json"}
\* curl: a good reply, no executable to start, or a non-zero exit with no output
CurlOutcomes == {"ok", "cannot_start", "exit_error"}

\* settings.get('markdown_binary_map', {}) seen from one compiler name
BinaryEntries == {"absent", "empty", "nonexistent", "exists"}
ExitCodes == {0, 1}

\* settings.get('html_template'): not set, set to a path where no file is, set
\* to a file that exists
TemplateStates == {"none", "missing", "exists"}

\* the HTML a successful conversion gives
HTML == <<"<h1>t</h1>">>

Raise(e) == [raised |-> e]
Ok == Raise("none")

(***************************************************************************)
(* log(msg) takes exactly one argument.                                    *)
(***************************************************************************)
log(nargs) == IF nargs = 1 THEN Ok ELSE Raise("TypeError")

(***************************************************************************)
(* get_references(file_name): the text of one reference file.              *)
(***************************************************************************)
RefText(ref) == <<ToString(ref)>>

get_references(ref, fstate) ==
    IF fstate = "ok" THEN [raised |-> "none", text |-> RefText(ref)]
    ELSE IF fstate = "unreadable"
         \* except Exception: log(traceback.format_exc())
         THEN [raised |-> log(1).raised, text |-> <<>>]
         \* log("Could not find reference file %s!", file_name)
         ELSE [raised |-> log(2).raised, text |-> <<>>]

\* for ref in references: contents += get_references(ref)
RECURSIVE AppendReferences(_, _, _, _)
AppendReferences(text, refs, fstates, i) ==
    IF i > Len(refs) THEN [raised |-> "none", text |-> text]
    ELSE LET r == get_references(refs[i], fstates[i])
         IN  IF r.raised # "none" THEN [raised |-> r.raised, text |-> text]
             ELSE AppendReferences(text \o r.text, refs, fstates, i + 1)

(***************************************************************************)
(* OnlineCompiler: the remote backends.                                    *)
(***************************************************************************)
\* self.settings.get(self.authentication_settings_key): "None" stands for a
\* setting that is not there, "" for an empty one
TokenValues == {"None", "", "tok"}

\* if token: / if token_value:
Truthy(token) == token \notin {"None", ""}

\* the class attributes of GithubCompiler and GitlabCompiler
url(b) ==
    IF b = "github" THEN "https://api.github.com/markdown"
    ELSE "https://gitlab.com/api/v4/markdown"
content_type(b) == "application/json"
authentication_api_key(b) == IF b = "github" THEN "Authorization" ELSE "Private-Token"
authentication_api_type(b) == IF b = "github" THEN "token" ELSE ""

\* json.dumps(self.pack_data(markdown_text, mode)), mode being 'gfm'
pack_data(b, markdown_text) ==
    IF b = "github" THEN <<"text", markdown_text, "mode", "gfm">>
    ELSE <<"text", markdown_text, "gfm", "true">>

\* the request parser_specific_convert hands to urlopen
urlopen_request(b, token, markdown_text) ==
    [via |-> "urlopen",
     url |-> url(b),
     body |-> pack_data(b, markdown_text),
     content_type |-> content_type(b),
     auth |-> IF Truthy(token)
              \* "%s %s" % (self.authentication_api_type, token)
              THEN <<[name |-> authentication_api_key(b),
                      value |-> authentication_api_type(b) \o " " \o token]>>
              ELSE <<>>]

\* ' '.join(token) of curl_convert: the type, if there is one, and the value
JoinToken(b, token_value) ==
    IF authentication_api_type(b) # ""
    THEN authentication_api_type(b) \o " " \o token_value
    ELSE token_value

\* the request curl sends for the arguments curl_convert builds: -H
\* 'Content-Type: %s', -d the data, the url, and -H '%s: %s' for the token;
\* curl sends what follows the colon and the blank as the header's value
curl_request(b, token_value, markdown_text) ==
    [via |-> "curl",
     url |-> url(b),
     body |-> pack_data(b, markdown_text),
     content_type |-> content_type(b),
     auth |-> IF Truthy(token_value)
              THEN <<[name |-> authentication_api_key(b),
                      value |-> JoinToken(b, token_value)]>>
              ELSE <<>>]

\* the requests one parser_specific_convert issues
requests_issued(b, token, markdown_text, net) ==
    <<urlopen_request(b, token, markdown_text)>>
    \o (IF net = "urlerror" THEN <<curl_request(b, token, markdown_text)>> ELSE <<>>)

\* get_server_exception_message(body): body['message'] for GitHub,
\* body.get('message', '') + body.get('error', '') for GitLab
get_server_exception_message(b, shape) ==
    IF b = "github" /\ shape # "json_message" THEN Raise("KeyError") ELSE Ok

\* get_response_from_exception(e): e.read() exists on an HTTPError only, and
\* json.loads needs JSON
get_response_from_exception(b, e) ==
    IF e.kind # "HTTPError" THEN Raise("AttributeError")
    ELSE IF e.shape = "not_json" THEN Raise("ValueError")
    ELSE get_server_exception_message(b, e.shape)

\* unpack_data on what curl wrote: GitHub decodes the bytes, GitLab parses JSON
\* and takes ['html']
unpack_curl_output(b, curl) ==
    IF curl = "ok" THEN [raised |-> "none", html |-> HTML]
    ELSE IF b = "github" THEN [raised |-> "none", html |-> <<>>]
    ELSE [raised |-> "ValueError", html |-> <<>>]

\* curl_convert(data): only subprocess.CalledProcessError is caught, which
\* neither Popen nor communicate raises
curl_convert(b, curl) ==
    IF curl = "cannot_start"
    THEN [raised |-> "OSError", html |-> <<>>, errors |-> <<>>, procs |-> <<"curl">>]
    ELSE LET u == unpack_curl_output(b, curl)
         IN  [raised |-> u.raised, html |-> u.html, errors |-> <<>>,
              procs |-> <<"curl">>]

\* the message of each except HTTPError branch
HttpErrorMessage(code) ==
    IF code = 401 THEN "authentication_failed_check_token"
    ELSE IF code = 403 THEN "rate_limit_guidance"
    ELSE "responded_unfriendly"

OnlineResult(raised, html, errs, stat, ps) ==
    [raised |-> raised, html |-> html, errors |-> errs, status |-> stat, procs |-> ps]

\* OnlineCompiler.parser_specific_convert
online_convert(b, net, code, shape, curl) ==
    LET start == <<"converting">>
    IN  CASE net = "ok" ->
               OnlineResult("none", HTML, <<>>, start \o <<"converted">>, <<>>)
          [] net = "http" ->
               LET r == get_response_from_exception(
                            b, [kind |-> "HTTPError", code |-> code, shape |-> shape])
               IN  IF r.raised # "none"
                   THEN OnlineResult(r.raised, CANNOT_CONVERT, <<>>, start, <<>>)
                   ELSE OnlineResult("none", CANNOT_CONVERT,
                            <<[msg |-> HttpErrorMessage(code), server |-> TRUE]>>,
                            start, <<>>)
          [] net = "urlerror" ->
               LET c == curl_convert(b, curl)
               IN  OnlineResult(c.raised, c.html, c.errors, start, c.procs)
          [] OTHER ->
               LET r == get_response_from_exception(
                            b, [kind |-> "Exception", code |-> 0, shape |-> "not_json"])
               IN  IF r.raised # "none"
                   THEN OnlineResult(r.raised, CANNOT_CONVERT, <<>>, start, <<>>)
                   ELSE OnlineResult("none", CANNOT_CONVERT,
                            <<[msg |-> "cannot_use_api", server |-> TRUE]>>,
                            start, <<>>)

(***************************************************************************)
(* ExternalMarkdownCompiler.parser_specific_convert                        *)
(***************************************************************************)
external_convert(entry, exit) ==
    CASE entry = "absent" ->
           \* settings.get('markdown_binary_map', {})[self.compiler_name]
           OnlineResult("KeyError", <<>>, <<>>, <<>>, <<>>)
      [] entry \in {"empty", "nonexistent"} ->
           OnlineResult("none", CANNOT_CONVERT,
               <<[msg |-> "cannot_find_binary", server |-> FALSE]>>, <<>>, <<>>)
      [] OTHER ->
           IF exit = 0
           THEN OnlineResult("none", HTML, <<>>, <<"converting">>, <<"binary">>)
           ELSE OnlineResult("none", CANNOT_CONVERT,
                    <<[msg |-> "could_not_convert", server |-> FALSE]>>,
                    <<"converting">>, <<"binary">>)

(***************************************************************************)
(* MarkdownCompiler.parser_specific_convert                                *)
(***************************************************************************)
local_convert ==
    OnlineResult("none", HTML, <<>>, <<"converting">>, <<>>)

(***************************************************************************)
(* The HTML postprocessors.                                                *)
(***************************************************************************)
\* the heading texts of the model, and uslugify(text, '-') of each: lower
\* case, punctuation dropped
HeadingTexts == {"t", "T", "t-1", "!"}

uslugify(text) ==
    CASE text = "T" -> "t"
      [] text = "!" -> ""
      [] OTHER -> text

Slugs == {uslugify(t) : t \in HeadingTexts} \ {""}

\* a heading element without attributes, and one with an id
Heading(text) == "<h1>" \o text \o "</h1>"
HeadingWithId(text, id) == "<h1 id=\"" \o id \o "\">" \o text \o "</h1>"

\* header_id += "-%d" % value
Suffixed(slug, value) == slug \o "-" \o ToString(value)

\* the ids inject_id can give to the headings of one fragment
HeaderIds == Slugs \cup {Suffixed(s, n) : s \in Slugs, n \in 1..MaxHeadings}

\* re_header matches e: a heading without attributes
IsHeading(e) == \E t \in HeadingTexts : e = Heading(t)
TextOf(e) == CHOOSE t \in HeadingTexts : e = Heading(t)

\* the unique dictionary of postprocess_inject_header_id; 0 stands for no entry
NoneSeen == [s \in Slugs |-> 0]

\* inject_id without the counter: every repetition gets the suffix -1
inject_id_no_count(e, unique) ==
    LET header_id == uslugify(TextOf(e))
    IN  IF header_id = "" THEN [html |-> e, unique |-> unique]
        ELSE IF unique[header_id] = 0
        THEN [html |-> HeadingWithId(TextOf(e), header_id),
              unique |-> [unique EXCEPT ![header_id] = 1]]
        ELSE [html |-> HeadingWithId(TextOf(e), Suffixed(header_id, 1)),
              unique |-> unique]

\* inject_id(m) for one match, with the dictionary before and after
inject_id(e, unique) ==
    LET header_id == uslugify(TextOf(e))
        value == unique[header_id]
    IN  IF header_id = "" THEN [html |-> e, unique |-> unique]
        ELSE IF value = 0
        THEN [html |-> HeadingWithId(TextOf(e), header_id),
              unique |-> [unique EXCEPT ![header_id] = 1]]
        ELSE [html |-> HeadingWithId(TextOf(e), Suffixed(header_id, value)),
              unique |-> [unique EXCEPT ![header_id] = value + 1]]

\* re_header.sub(inject_id, html): the matches from left to right
RECURSIVE InjectFrom(_, _, _)
InjectFrom(html, i, unique) ==
    IF i > Len(html) THEN <<>>
    ELSE IF ~IsHeading(html[i]) THEN <<html[i]>> \o InjectFrom(html, i + 1, unique)
    ELSE LET r == inject_id(html[i], unique)
         IN  <<r.html>> \o InjectFrom(html, i + 1, r.unique)

\* GithubCompiler.postprocess_inject_header_id
postprocess_inject_header_id(html) == InjectFrom(html, 1, NoneSeen)

\* an element that carries an id attribute
HasId(e) == \E t \in HeadingTexts, id \in HeaderIds : e = HeadingWithId(t, id)

\* StripHtmlPostprocessor with strip_attributes id, class, style, on one element
StripAttributes(e) ==
    IF HasId(e)
    THEN Heading(CHOOSE t \in HeadingTexts : \E id \in HeaderIds : e = HeadingWithId(t, id))
    ELSE e

\* Compiler.postprocessor_simple: the stripper runs over the whole HTML
postprocessor_simple(html) == [i \in 1..Len(html) |-> StripAttributes(html[i])]

HIGHLIGHT_SCRIPT == "<script>const HIGHLIGHT_THEME = \"white\";</script>"

\* parser_specific_postprocess of each compiler class
parser_specific_postprocess(b, html, inject, simple) ==
    CASE b = "github" -> IF inject THEN postprocess_inject_header_id(html) ELSE html
      [] b = "gitlab" -> IF simple THEN html ELSE html \o <<HIGHLIGHT_SCRIPT>>
      [] OTHER -> html

\* the tags postprocessor_pathconverter hands to PathConverterPostprocessor,
\* as resource classes: "file" is script, a, link; "img" is img
pathconverter_tags(image_convert, file_convert) ==
    (IF file_convert THEN {"file"} ELSE {}) \cup (IF image_convert THEN {"img"} ELSE {})

\* B64Postprocessor rewrites images only
base64_tags == {"img"}

\* whether convert_markdown runs each pass
RunsAbsolute(c) == "absolute" \in {c.image, c.file}
RunsRelative(c) == "relative" \in {c.image, c.file}
RunsBase64(c) == c.image = "base64"

\* RelativeArgs handing over the settings themselves, both of them truthy
RelativeArgsTruthy(c) == pathconverter_tags(c.image # "", c.file # "")

\* the arguments convert_markdown gives postprocessor_pathconverter
AbsoluteArgs(c) == pathconverter_tags(c.image = "absolute", c.file = "absolute")
RelativeArgs(c) == pathconverter_tags(c.image = "relative", c.file = "relative")

Record(rw, tags, pass) ==
    [k \in {"img", "file"} |-> IF k \in tags THEN Append(rw[k], pass) ELSE rw[k]]

(***************************************************************************)
(* Document assembly (the end of Compiler.run).                            *)
(***************************************************************************)
HEAD_PLACEHOLDER == "{{ HEAD }}"
BODY_PLACEHOLDER == "{{ BODY }}"

\* the text of a template file with one placeholder of each kind
TemplateFile == <<"<html>", HEAD_PLACEHOLDER, BODY_PLACEHOLDER, "</html>">>

\* the template files of the model: the placeholders once, twice, in the other
\* order, without BODY, without either
TemplateFiles ==
    { TemplateFile,
      <<HEAD_PLACEHOLDER, HEAD_PLACEHOLDER, BODY_PLACEHOLDER, BODY_PLACEHOLDER>>,
      <<BODY_PLACEHOLDER, "<hr>", HEAD_PLACEHOLDER>>,
      <<"<html>", HEAD_PLACEHOLDER, "</html>">>,
      <<"<html>", "</html>">> }

\* view.name() and view.file_name(); "" stands for an unnamed view and for
\* file_name() returning None
ViewNames == {"", "Draft"}
FileNames == {"", "/d/notes.md"}

\* os.path.splitext(os.path.basename(fn))[0]
Stem(fn) == IF fn = "/d/notes.md" THEN "notes" ELSE fn

\* cgi.escape(s): &, < and > become entities
cgi_escape(s) == IF s = "R&D" THEN "R&amp;D" ELSE s

\* the value under the key "title" of settings.get("meta", {}): no such key, a
\* scalar, or a list
Absent == [kind |-> "absent", value |-> <<>>]
TitleValues ==
    { Absent,
      [kind |-> "scalar", value |-> <<"Foo">>],
      [kind |-> "scalar", value |-> <<"">>],
      [kind |-> "scalar", value |-> <<BODY_PLACEHOLDER>>],
      [kind |-> "list", value |-> <<>>],
      [kind |-> "list", value |-> <<"R&D", "B">>] }

NoMeta == [title |-> Absent, lines |-> <<>>]

\* '<meta name="%s" content="%s">' of one entry that is not the title
MetaTag(line) == "<meta " \o line[1] \o ">"

\* '\n'.join(meta)
RECURSIVE JoinLines(_)
JoinLines(tags) ==
    IF tags = <<>> THEN <<>>
    ELSE IF Len(tags) = 1 THEN tags
    ELSE <<Head(tags), NL>> \o JoinLines(Tail(tags))

\* get_meta: sets self.meta_title and returns the meta tags
get_meta(s) ==
    LET v == s.meta.title
    IN  [meta_title |->
            IF v.kind = "absent" THEN [set |-> FALSE, text |-> ""]
            ELSE IF v.kind = "list"
                 THEN [set |-> TRUE,
                       text |-> IF Len(v.value) = 0 THEN "" ELSE v.value[1]]
                 ELSE [set |-> TRUE, text |-> v.value[1]],
         html |-> JoinLines([i \in 1..Len(s.meta.lines) |-> MetaTag(s.meta.lines[i])])]

\* the title get_title settles on, before escaping
TitleFor(meta_title, v) ==
    LET title == IF meta_title.set THEN meta_title.text ELSE v.name
    IN  IF title # "" THEN title
        ELSE IF v.file_name = "" THEN "untitled" ELSE Stem(v.file_name)

\* get_title: '<title>%s</title>' % cgi.escape(title)
get_title(meta_title, v) == <<"<title>", cgi_escape(TitleFor(meta_title, v)), "</title>">>

\* get_stylesheet: every compiler class has a default style sheet
get_stylesheet(b) == <<"<style>">>

\* get_javascript: GitlabCompiler alone has default scripts
get_javascript(b) == IF b = "gitlab" THEN <<"<script src>">> ELSE <<>>

\* get_highlight: the Pygments style of MarkdownCompiler, '' in the base class
get_highlight(b) == IF b = "markdown" THEN <<"<style pygments>">> ELSE <<>>

\* the head content, in the order run builds it
HeadParts(s, v, b) ==
    get_meta(s).html \o get_stylesheet(b) \o get_javascript(b) \o get_highlight(b)
    \o get_title(get_meta(s).meta_title, v)

\* str.replace(old, new, 1) on a token sequence
RECURSIVE ReplaceFirst(_, _, _)
ReplaceFirst(t, old, new) ==
    IF t = <<>> THEN <<>>
    ELSE IF Head(t) = old THEN new \o Tail(t)
    ELSE <<Head(t)>> \o ReplaceFirst(Tail(t), old, new)

ShellOpen ==
    <<"<!DOCTYPE html>", "<html><head><meta charset=\"utf-8\">",
      "<meta name=\"viewport\" content=\"width=device-width, initial-scale=1\">">>
ArticleOpen == <<"</head><body>", "<article class=\"markdown-body\">">>
ArticleClose == <<"</article>", "</body>", "</html>">>

\* assemble with the template tried before the html_simple switch
assembleTemplateFirst(simple, template, text, head, b) ==
    IF template = "exists"
    THEN ReplaceFirst(ReplaceFirst(text, HEAD_PLACEHOLDER, head), BODY_PLACEHOLDER, b)
    ELSE IF simple THEN b
    ELSE ShellOpen \o head \o ArticleOpen \o b \o ArticleClose

\* str.replace(old, new) without a count, on a token sequence
RECURSIVE ReplaceAll(_, _, _)
ReplaceAll(t, old, new) ==
    IF t = <<>> THEN <<>>
    ELSE (IF Head(t) = old THEN new ELSE <<Head(t)>>) \o ReplaceAll(Tail(t), old, new)

\* assemble with every placeholder of the template replaced
assembleReplaceAll(simple, template, text, head, b) ==
    IF simple THEN b
    ELSE IF template = "exists"
    THEN ReplaceAll(ReplaceAll(text, HEAD_PLACEHOLDER, head), BODY_PLACEHOLDER, b)
    ELSE ShellOpen \o head \o ArticleOpen \o b \o ArticleClose

\* assemble with the body put into the template before the head
assembleBodyFirst(simple, template, text, head, b) ==
    IF simple THEN b
    ELSE IF template = "exists"
    THEN ReplaceFirst(ReplaceFirst(text, BODY_PLACEHOLDER, b), HEAD_PLACEHOLDER, head)
    ELSE ShellOpen \o head \o ArticleOpen \o b \o ArticleClose

\* the html of run: the body alone, the template filled in, or the default shell
assemble(simple, template, text, head, b) ==
    IF simple THEN b
    ELSE IF template = "exists"
    THEN ReplaceFirst(ReplaceFirst(text, HEAD_PLACEHOLDER, head), BODY_PLACEHOLDER, b)
    ELSE ShellOpen \o head \o ArticleOpen \o b \o ArticleClose

(***************************************************************************)
(* The state machine of Compiler.run: one action per stage.                *)
(***************************************************************************)
PlainText == <<"x">>
FrontMatterText == <<"---", NL, "k: v", NL, "---", NL, "x">>

\* the views of the pipeline runs: document text and first selection
Views ==
    { [text |-> PlainText, sel |-> <<>>, name |-> "", file_name |-> "/d/notes.md"],
      [text |-> PlainText, sel |-> <<NL>>, name |-> "", file_name |-> "/d/notes.md"],
      [text |-> FrontMatterText, sel |-> <<"x">>, name |-> "",
       file_name |-> "/d/notes.md"] }

\* the reference lists of the settings: files 1..n
RefLists == {[i \in 1..n |-> i] : n \in 0..MaxRefs}

NoResult == [returned |-> FALSE, html |-> <<>>, body |-> <<>>]

\* no external parser has been started
NoPipe ==
    [parent |-> "none", child |-> "none", capacity |-> 0, to_write |-> 0,
     stdin |-> 0, stdin_closed |-> FALSE, pending |-> 0, stdout |-> 0,
     read |-> 0, reaped |-> FALSE]

\* no markdown_preview command yet, no save yet
NoCommand ==
    [by |-> "none", parser |-> "unset", target |-> "unset", compiler |-> "none",
     outcome |-> "none", livereload |-> FALSE]
NoSave ==
    [seen |-> FALSE, triggered |-> FALSE, file_existed |-> FALSE,
     recorded |-> "unset", parser |-> "unset", target |-> "unset"]

\* a view no markdown_preview command has run on: view.settings() holds no
\* parser and no target ("unset" stands for None)
NoEditor ==
    [parser |-> "unset", target |-> "unset", preview_file |-> FALSE,
     enable_autoreload |-> TRUE, markdown_file |-> TRUE,
     last_command |-> NoCommand, last_save |-> NoSave]

NotAsked ==
    [files |-> <<>>, net |-> "unasked", code |-> 0, shape |-> "unasked",
     curl |-> "unasked", entry |-> "unasked", exit |-> 0,
     html |-> HTML, engine_meta |-> <<>>, inject |-> "unread", requests |-> <<>>,
     template |-> "unasked", template_text |-> TemplateFile]

Idle ==
    /\ contents = <<>>
    /\ frontmatter = EmptyFrontMatter
    /\ body = <<>>
    /\ convs = [image |-> "unread", file |-> "unread"]
    /\ rewrittenBy = [img |-> <<>>, file |-> <<>>]
    /\ trace = <<>>
    /\ errors = <<>>
    /\ status = <<>>
    /\ procs = <<>>
    /\ env = NotAsked
    /\ exc = "none"
    /\ result = NoResult

Init ==
    /\ pc = "select"
    /\ backend \in Backends
    /\ settings \in [strip_yaml_front_matter : BOOLEAN,
                     html_simple : BOOLEAN,
                     references : RefLists,
                     token : {"tok"},
                     meta : {NoMeta}]
    /\ view \in Views
    /\ wholefile \in BOOLEAN
    /\ Idle
    /\ editor = NoEditor
    /\ pipe = NoPipe

\* IsBlank testing for the empty string, without strip()
IsBlankEmpty(t) == t = <<>>

\* str.strip() == ''
IsBlank(t) == \A i \in 1..Len(t) : t[i] \in {NL, CR}

\* get_contents: the selection, or the whole text
select_source(v, whole) ==
    IF ~whole /\ ~IsBlank(v.sel) THEN v.sel ELSE v.text

\* StageAfter with the critic marks stripped before the references are appended
StageAfterCriticFirst(p) ==
    CASE p = "select" -> "frontmatter"
      [] p = "frontmatter" -> "critic"
      [] p = "critic" -> "references"
      [] p = "references" -> "preprocess"
      [] p = "preprocess" -> "convert"
      [] p = "convert" -> "postprocess"
      [] p = "postprocess" -> "absolute"
      [] p = "absolute" -> "relative"
      [] p = "relative" -> "base64"
      [] p = "base64" -> "simple"
      [] p = "simple" -> "assemble"
      [] OTHER -> "done"

\* StageAfter with the attributes stripped before the parser's postprocess hook
StageAfterSimpleFirst(p) ==
    CASE p = "select" -> "frontmatter"
      [] p = "frontmatter" -> "references"
      [] p = "references" -> "critic"
      [] p = "critic" -> "preprocess"
      [] p = "preprocess" -> "convert"
      [] p = "convert" -> "simple"
      [] p = "simple" -> "postprocess"
      [] p = "postprocess" -> "absolute"
      [] p = "absolute" -> "relative"
      [] p = "relative" -> "base64"
      [] p = "base64" -> "assemble"
      [] OTHER -> "done"

\* the order of the statements of run, get_contents and convert_markdown
StageAfter(p) ==
    CASE p = "select" -> "frontmatter"
      [] p = "frontmatter" -> "references"
      [] p = "references" -> "critic"
      [] p = "critic" -> "preprocess"
      [] p = "preprocess" -> "convert"
      [] p = "convert" -> "postprocess"
      [] p = "postprocess" -> "absolute"
      [] p = "absolute" -> "relative"
      [] p = "relative" -> "base64"
      [] p = "base64" -> "simple"
      [] p = "simple" -> "assemble"
      [] OTHER -> "done"

\* the stage at pc runs, and control moves on
Goto ==
    /\ pc' = StageAfter(pc)
    /\ trace' = Append(trace, pc)

\* the stage at pc is switched off, and control moves on
Skip ==
    /\ pc' = StageAfter(pc)
    /\ trace' = trace

\* the stage at pc runs and ends normally, or an exception leaves it
GotoOrThrow(e) ==
    /\ trace' = Append(trace, pc)
    /\ exc' = e
    /\ pc' = IF e = "none" THEN StageAfter(pc) ELSE "raised"

SelectSource ==
    /\ pc = "select"
    /\ contents' = select_source(view, wholefile)
    /\ Goto
    /\ UNCHANGED <<pipe, editor, backend, settings, view, wholefile, frontmatter, body, convs,
                   rewrittenBy, errors, status, procs, env, exc, result>>

\* Settings.apply_frontmatter(frontmatter): the keys of the front matter are
\* laid over the configuration; the keys of the model are meta data
apply_frontmatter(s, fm) == [s EXCEPT !.meta.lines = @ \o fm.value]

\* Settings.add_meta(meta): the meta data are folded into the configuration
add_meta(s, meta) == [s EXCEPT !.meta.lines = @ \o meta]

\* md.Meta after md.convert: what the engine's meta extension found
EngineMetas == {<<>>, << <<"k: v">> >>}

\* if self.settings.get('strip_yaml_front_matter'): extract and overlay
FrontMatter ==
    /\ pc = "frontmatter"
    /\ IF settings.strip_yaml_front_matter
       THEN LET r == preprocessor_yaml_frontmatter(contents)
            IN  /\ contents' = r.text
                /\ frontmatter' = r.frontmatter
                /\ settings' = apply_frontmatter(settings, r.frontmatter)
                /\ Goto
       ELSE /\ UNCHANGED <<contents, frontmatter, settings>>
            /\ Skip
    /\ UNCHANGED <<pipe, editor, backend, view, wholefile, body, convs,
                   rewrittenBy, errors, status, procs, env, exc, result>>

\* for ref in references: contents += get_references(ref)
References ==
    /\ pc = "references"
    /\ \E fstates \in [1..Len(settings.references) -> FileStates] :
          LET r == AppendReferences(contents, settings.references, fstates, 1)
          IN  /\ contents' = r.text
              /\ env' = [env EXCEPT !.files = fstates]
              /\ GotoOrThrow(r.raised)
    /\ UNCHANGED <<pipe, editor, backend, settings, view, wholefile, frontmatter, body, convs,
                   rewrittenBy, errors, status, procs, result>>

\* preprocessor_criticmarkup: the texts of the model hold no critic marks
preprocessor_criticmarkup(source, accept) == source

Critic ==
    /\ pc = "critic"
    /\ \E mode \in CriticModes :
          IF mode \in {"accept", "reject"}
          THEN /\ contents' = preprocessor_criticmarkup(contents, mode = "accept")
               /\ Goto
          ELSE /\ contents' = contents
               /\ Skip
    /\ UNCHANGED <<pipe, editor, backend, settings, view, wholefile, frontmatter, body, convs,
                   rewrittenBy, errors, status, procs, env, exc, result>>

\* parser_specific_preprocess: no class overrides the base method
parser_specific_preprocess(text) == text

Preprocess ==
    /\ pc = "preprocess"
    /\ contents' = parser_specific_preprocess(contents)
    /\ Goto
    /\ UNCHANGED <<pipe, editor, backend, settings, view, wholefile, frontmatter, body, convs,
                   rewrittenBy, errors, status, procs, env, exc, result>>

\* the effect of one parser_specific_convert on the run
Converted(r) ==
    /\ body' = r.html
    /\ errors' = errors \o r.errors
    /\ status' = status \o r.status
    /\ procs' = procs \o r.procs
    /\ GotoOrThrow(r.raised)
    /\ UNCHANGED <<pipe, editor, backend, view, wholefile, contents, frontmatter, convs,
                   rewrittenBy, result>>

\* md.convert, then self.settings.add_meta(md.Meta)
ConvertLocal ==
    /\ pc = "convert"
    /\ backend = "markdown"
    /\ \E meta \in EngineMetas :
          /\ env' = [env EXCEPT !.engine_meta = meta]
          /\ settings' = add_meta(settings, meta)
    /\ Converted(local_convert)

ConvertOnline ==
    /\ pc = "convert"
    /\ backend \in OnlineBackends
    /\ \E net \in NetOutcomes :
          \E code \in (IF net = "http" THEN HttpCodes ELSE {0}) :
          \E shape \in (IF net = "http" THEN ErrorBodies ELSE {"unasked"}) :
          \E curl \in (IF net = "urlerror" THEN CurlOutcomes ELSE {"unasked"}) :
             /\ env' = [env EXCEPT !.net = net, !.code = code, !.shape = shape,
                                   !.curl = curl,
                                   !.requests = requests_issued(backend, settings.token,
                                                                contents, net)]
             /\ settings' = settings
             /\ Converted(online_convert(backend, net, code, shape, curl))

ConvertExternal ==
    /\ pc = "convert"
    /\ backend = "external"
    /\ \E entry \in BinaryEntries :
          \E exit \in (IF entry = "exists" THEN ExitCodes ELSE {0}) :
             /\ env' = [env EXCEPT !.entry = entry, !.exit = exit]
             /\ settings' = settings
             /\ Converted(external_convert(entry, exit))

\* image_convert, file_convert are read, then the parser's postprocess hook runs
Postprocess ==
    /\ pc = "postprocess"
    /\ \E image \in PathModes, file \in PathModes :
          convs' = [image |-> image, file |-> file]
    /\ \E inject \in (IF backend = "github" THEN BOOLEAN ELSE {FALSE}) :
          /\ body' = parser_specific_postprocess(backend, body, inject,
                                                 settings.html_simple)
          /\ env' = [env EXCEPT !.inject = IF backend # "github" THEN "unread"
                                           ELSE IF inject THEN "on" ELSE "off"]
    /\ Goto
    /\ UNCHANGED <<pipe, editor, backend, settings, view, wholefile, contents, frontmatter,
                   rewrittenBy, errors, status, procs, exc, result>>

Absolute ==
    /\ pc = "absolute"
    /\ IF RunsAbsolute(convs)
       THEN /\ rewrittenBy' = Record(rewrittenBy, AbsoluteArgs(convs), "absolute")
            /\ Goto
       ELSE /\ rewrittenBy' = rewrittenBy
            /\ Skip
    /\ UNCHANGED <<pipe, editor, backend, settings, view, wholefile, contents, frontmatter, body,
                   convs, errors, status, procs, env, exc, result>>

Relative ==
    /\ pc = "relative"
    /\ IF RunsRelative(convs)
       THEN /\ rewrittenBy' = Record(rewrittenBy, RelativeArgs(convs), "relative")
            /\ Goto
       ELSE /\ rewrittenBy' = rewrittenBy
            /\ Skip
    /\ UNCHANGED <<pipe, editor, backend, settings, view, wholefile, contents, frontmatter, body,
                   convs, errors, status, procs, env, exc, result>>

Base64 ==
    /\ pc = "base64"
    /\ IF RunsBase64(convs)
       THEN /\ rewrittenBy' = Record(rewrittenBy, base64_tags, "base64")
            /\ Goto
       ELSE /\ rewrittenBy' = rewrittenBy
            /\ Skip
    /\ UNCHANGED <<pipe, editor, backend, settings, view, wholefile, contents, frontmatter, body,
                   convs, errors, status, procs, env, exc, result>>

\* if self.settings.get("html_simple", False): postprocessor_simple
Simple ==
    /\ pc = "simple"
    /\ IF settings.html_simple
       THEN /\ body' = postprocessor_simple(body)
            /\ Goto
       ELSE /\ body' = body
            /\ Skip
    /\ UNCHANGED <<pipe, editor, backend, settings, view, wholefile, contents, frontmatter,
                   convs, rewrittenBy, errors, status, procs, env, exc, result>>

\* the rest of run: the template, the head, return html, body
Assemble ==
    /\ pc = "assemble"
    /\ \E template \in TemplateStates :
          /\ env' = [env EXCEPT !.template = template]
          /\ result' = [returned |-> TRUE,
                        html |-> assemble(settings.html_simple, template,
                                          env.template_text,
                                          HeadParts(settings, view, backend), body),
                        body |-> body]
    /\ Goto
    /\ UNCHANGED <<pipe, editor, backend, settings, view, wholefile, contents, frontmatter, body,
                   convs, rewrittenBy, errors, status, procs, exc>>

Next ==
    \/ SelectSource
    \/ FrontMatter
    \/ References
    \/ Critic
    \/ Preprocess
    \/ ConvertLocal
    \/ ConvertOnline
    \/ ConvertExternal
    \/ Postprocess
    \/ Absolute
    \/ Relative
    \/ Base64
    \/ Simple
    \/ Assemble

Spec == Init /\ [][Next]_vars

(***************************************************************************)
(* The front-matter extractor on its own: each text is selected whole and  *)
(* handed to preprocessor_yaml_frontmatter.                                *)
(***************************************************************************)
TextsUpTo(len) == UNION {[1..n -> Tok] : n \in 0..len}

Texts == TextsUpTo(MaxPlain) \cup {<<"---", NL>> \o t : t \in TextsUpTo(MaxTail)}

FrontMatterInit ==
    /\ pc = "select"
    /\ backend = "markdown"
    /\ settings = [strip_yaml_front_matter |-> TRUE,
                   html_simple |-> FALSE,
                   references |-> <<>>,
                   token |-> "tok",
                   meta |-> NoMeta]
    /\ view \in {[text |-> t, sel |-> <<>>, name |-> "", file_name |-> "/d/notes.md"] :
                   t \in Texts}
    /\ wholefile = TRUE
    /\ Idle
    /\ editor = NoEditor
    /\ pipe = NoPipe

FrontMatterNext ==
    \/ SelectSource
    \/ FrontMatter

SpecFrontMatter == FrontMatterInit /\ [][FrontMatterNext]_vars

(***************************************************************************)
(* The GitHub postprocessing on its own: the API has answered with a       *)
(* fragment of headings, and convert_markdown goes on from its hook.       *)
(***************************************************************************)
Fragments == UNION {[1..n -> {Heading(t) : t \in HeadingTexts}] : n \in 0..MaxHeadings}

HeaderIdsInit ==
    /\ pc = "postprocess"
    /\ backend = "github"
    /\ settings \in [strip_yaml_front_matter : {FALSE},
                     html_simple : BOOLEAN,
                     references : {<<>>},
                     token : {"tok"},
                     meta : {NoMeta}]
    /\ view = [text |-> PlainText, sel |-> <<>>, name |-> "",
               file_name |-> "/d/notes.md"]
    /\ wholefile = TRUE
    /\ contents = PlainText
    /\ frontmatter = EmptyFrontMatter
    /\ body \in Fragments
    /\ convs = [image |-> "unread", file |-> "unread"]
    /\ rewrittenBy = [img |-> <<>>, file |-> <<>>]
    /\ trace = <<"select", "references", "preprocess", "convert">>
    /\ errors = <<>>
    /\ status = <<"converting", "converted">>
    /\ procs = <<>>
    /\ env = [NotAsked EXCEPT !.net = "ok", !.html = body]
    /\ exc = "none"
    /\ result = NoResult
    /\ editor = NoEditor
    /\ pipe = NoPipe

HeaderIdsNext ==
    \/ Postprocess
    \/ Absolute
    \/ Relative
    \/ Base64
    \/ Simple

SpecHeaderIds == HeaderIdsInit /\ [][HeaderIdsNext]_vars

(***************************************************************************)
(* The editor around the conversion: the markdown_preview command          *)
(* (MarkdownPreviewCommand.run with to_disk) and the save listener         *)
(* (MarkdownPreviewListener.on_post_save), on one view.  Compiler.run is   *)
(* taken as one step here, which returns or raises.                        *)
(***************************************************************************)
\* the parser argument of the command: the three built-in names and the name of
\* an external one
ParserNames == {"markdown", "github", "gitlab", "multimarkdown"}
Targets == {"browser", "disk", "sublime", "clipboard", "save"}
RunOutcomes == {"returned", "raised"}

\* external_parser_classes = [GithubCompiler, GitlabCompiler]: the classes
\* themselves, to which a parser name is compared
ExternalParserClasses == {"<class GithubCompiler>", "<class GitlabCompiler>"}
external_parser_used(parser) == parser \in ExternalParserClasses

\* settings.get('enable_autoreload', True) and
\* (not external_parser_used or auth_provided)
reload_allowed(autoreload, parser, token) ==
    autoreload /\ (~external_parser_used(parser) \/ token # "None")

\* the compiler class MarkdownPreviewCommand.run picks
compiler_for(parser, enabled) ==
    CASE parser = "github" -> "GithubCompiler"
      [] parser = "gitlab" -> "GitlabCompiler"
      [] parser = "markdown" -> "MarkdownCompiler"
      [] parser # "unset" /\ enabled -> "ExternalMarkdownCompiler"
      [] OTHER -> "MarkdownCompiler"

\* markdown_preview without the backup of the parser in the view's settings
markdown_preview_no_backup(ed, token, by, parser, target, enabled, outcome, installed) ==
    LET written == outcome = "returned" /\ target \in {"disk", "browser"}
    IN  [ed EXCEPT
            !.target = target,
            !.preview_file = @ \/ written,
            !.last_command =
                [by |-> by, parser |-> parser, target |-> target,
                 compiler |-> compiler_for(parser, enabled),
                 outcome |-> outcome,
                 livereload |-> /\ written
                                /\ reload_allowed(ed.enable_autoreload, parser, token)
                                /\ installed]]

\* MarkdownPreviewCommand.run(parser, target) with to_disk: the parser and the
\* target are kept in the view's settings, the compiler runs, and for the
\* targets disk and browser the preview file is written, with the LiveReload
\* script when that is allowed and LiveReload is installed
markdown_preview(ed, token, by, parser, target, enabled, outcome, installed) ==
    LET written == outcome = "returned" /\ target \in {"disk", "browser"}
    IN  [ed EXCEPT
            !.parser = parser,
            !.target = target,
            !.preview_file = @ \/ written,
            !.last_command =
                [by |-> by, parser |-> parser, target |-> target,
                 compiler |-> compiler_for(parser, enabled),
                 outcome |-> outcome,
                 livereload |-> /\ written
                                /\ reload_allowed(ed.enable_autoreload, parser, token)
                                /\ installed]]

\* the user runs the command on the view
PreviewCommand ==
    /\ pc = "editor"
    /\ \E parser \in ParserNames, target \in Targets, enabled \in BOOLEAN,
          outcome \in RunOutcomes, installed \in BOOLEAN :
          editor' = markdown_preview(editor, settings.token, "user", parser, target,
                                     enabled, outcome, installed)
    /\ UNCHANGED <<pipe, pc, backend, settings, view, wholefile, contents, frontmatter, body,
                   convs, rewrittenBy, trace, errors, status, procs, env, exc, result>>

\* MarkdownPreviewListener.on_post_save(view)
PostSave ==
    /\ pc = "editor"
    /\ LET parser == editor.parser
           seen == [seen |-> TRUE, triggered |-> FALSE,
                    file_existed |-> editor.preview_file,
                    recorded |-> editor.last_command.parser,
                    parser |-> "unset", target |-> "unset"]
       IN  IF /\ editor.markdown_file
              /\ reload_allowed(editor.enable_autoreload, parser, settings.token)
              /\ editor.preview_file
           THEN \E enabled \in BOOLEAN, outcome \in RunOutcomes, installed \in BOOLEAN :
                   editor' = [markdown_preview(editor, settings.token, "save", parser,
                                               "disk", enabled, outcome, installed)
                                EXCEPT !.last_save =
                                    [seen EXCEPT !.triggered = TRUE,
                                                 !.parser = parser,
                                                 !.target = "disk"]]
           ELSE editor' = [editor EXCEPT !.last_save = seen]
    /\ UNCHANGED <<pipe, pc, backend, settings, view, wholefile, contents, frontmatter, body,
                   convs, rewrittenBy, trace, errors, status, procs, env, exc, result>>

AutoreloadInit ==
    /\ pc = "editor"
    /\ backend = "markdown"
    /\ settings \in [strip_yaml_front_matter : {FALSE},
                     html_simple : {FALSE},
                     references : {<<>>},
                     token : TokenValues,
                     meta : {NoMeta}]
    /\ view = [text |-> PlainText, sel |-> <<>>, name |-> "",
               file_name |-> "/d/notes.md"]
    /\ wholefile = FALSE
    /\ Idle
    /\ editor \in [parser : {"unset"}, target : {"unset"},
                   preview_file : BOOLEAN,
                   enable_autoreload : BOOLEAN,
                   markdown_file : BOOLEAN,
                   last_command : {NoCommand},
                   last_save : {NoSave}]
    /\ pipe = NoPipe

AutoreloadNext ==
    \/ PreviewCommand
    \/ PostSave

SpecAutoreload == AutoreloadInit /\ [][AutoreloadNext]_vars

(***************************************************************************)
(* ExternalMarkdownCompiler.parser_specific_convert step by step, after    *)
(* Popen has started the child with three pipes.  The parent writes every  *)
(* line to the child's stdin and only then calls communicate, which closes *)
(* stdin, reads the output to its end and waits for the child.  The child  *)
(* is a filter: it reads a line, writes a line of output for it, and exits *)
(* at the end of its input.  Pipes are counted in lines; a write to a full *)
(* pipe blocks, a read from an empty one blocks until the writer closes.   *)
(***************************************************************************)
\* for line in markdown_text.split('\n'): p.stdin.write(line + '\n')
ParentWrite ==
    /\ pc = "pipes"
    /\ pipe.parent = "write"
    /\ pipe.to_write > 0
    /\ pipe.stdin < pipe.capacity
    /\ pipe' = [pipe EXCEPT !.to_write = @ - 1, !.stdin = @ + 1]
    /\ UNCHANGED <<pc, backend, settings, view, wholefile, contents, frontmatter, body,
                   convs, rewrittenBy, trace, errors, status, procs, env, exc, result,
                   editor>>

\* p.communicate(): stdin is closed first
ParentCommunicate ==
    /\ pc = "pipes"
    /\ pipe.parent = "write"
    /\ pipe.to_write = 0
    /\ pipe' = [pipe EXCEPT !.parent = "communicate", !.stdin_closed = TRUE]
    /\ UNCHANGED <<pc, backend, settings, view, wholefile, contents, frontmatter, body,
                   convs, rewrittenBy, trace, errors, status, procs, env, exc, result,
                   editor>>

\* p.communicate(): the output is read
ParentDrain ==
    /\ pc = "pipes"
    /\ pipe.parent = "communicate"
    /\ pipe.stdout > 0
    /\ pipe' = [pipe EXCEPT !.stdout = @ - 1, !.read = @ + 1]
    /\ UNCHANGED <<pc, backend, settings, view, wholefile, contents, frontmatter, body,
                   convs, rewrittenBy, trace, errors, status, procs, env, exc, result,
                   editor>>

\* p.communicate(): at the end of the output the child is waited for
ParentWait ==
    /\ pc = "pipes"
    /\ pipe.parent = "communicate"
    /\ pipe.stdout = 0
    /\ pipe.child = "exited"
    /\ pipe' = [pipe EXCEPT !.parent = "done", !.reaped = TRUE]
    /\ UNCHANGED <<pc, backend, settings, view, wholefile, contents, frontmatter, body,
                   convs, rewrittenBy, trace, errors, status, procs, env, exc, result,
                   editor>>

\* the child reads a line of its input
ChildRead ==
    /\ pc = "pipes"
    /\ pipe.child = "running"
    /\ pipe.pending = 0
    /\ pipe.stdin > 0
    /\ pipe' = [pipe EXCEPT !.stdin = @ - 1, !.pending = 1]
    /\ UNCHANGED <<pc, backend, settings, view, wholefile, contents, frontmatter, body,
                   convs, rewrittenBy, trace, errors, status, procs, env, exc, result,
                   editor>>

\* the child writes the output for the line it read
ChildWrite ==
    /\ pc = "pipes"
    /\ pipe.child = "running"
    /\ pipe.pending > 0
    /\ pipe.stdout < pipe.capacity
    /\ pipe' = [pipe EXCEPT !.pending = @ - 1, !.stdout = @ + 1]
    /\ UNCHANGED <<pc, backend, settings, view, wholefile, contents, frontmatter, body,
                   convs, rewrittenBy, trace, errors, status, procs, env, exc, result,
                   editor>>

\* the child sees the end of its input and exits
ChildExit ==
    /\ pc = "pipes"
    /\ pipe.child = "running"
    /\ pipe.pending = 0
    /\ pipe.stdin = 0
    /\ pipe.stdin_closed
    /\ pipe' = [pipe EXCEPT !.child = "exited"]
    /\ UNCHANGED <<pc, backend, settings, view, wholefile, contents, frontmatter, body,
                   convs, rewrittenBy, trace, errors, status, procs, env, exc, result,
                   editor>>

PipesInit ==
    /\ pc = "pipes"
    /\ backend = "external"
    /\ settings = [strip_yaml_front_matter |-> FALSE, html_simple |-> FALSE,
                   references |-> <<>>, token |-> "None", meta |-> NoMeta]
    /\ view = [text |-> PlainText, sel |-> <<>>, name |-> "",
               file_name |-> "/d/notes.md"]
    /\ wholefile = FALSE
    /\ Idle
    /\ editor = NoEditor
    /\ \E lines \in 1..MaxLines, capacity \in 1..MaxCapacity :
          pipe = [NoPipe EXCEPT !.parent = "write", !.child = "running",
                                !.capacity = capacity, !.to_write = lines]

PipesNext ==
    \/ ParentWrite
    \/ ParentCommunicate
    \/ ParentDrain
    \/ ParentWait
    \/ ChildRead
    \/ ChildWrite
    \/ ChildExit

SpecPipes == PipesInit /\ [][PipesNext]_vars

(***************************************************************************)
(* The remote backends on their own: get_contents has returned, and        *)
(* OnlineCompiler.parser_specific_convert runs with each token setting.    *)
(***************************************************************************)
OnlineInit ==
    /\ pc = "convert"
    /\ backend \in OnlineBackends
    /\ settings \in [strip_yaml_front_matter : {FALSE},
                     html_simple : {FALSE},
                     references : {<<>>},
                     token : TokenValues,
                     meta : {NoMeta}]
    /\ view \in [text : {PlainText, FrontMatterText, <<>>}, sel : {<<>>},
                 name : {""}, file_name : {"/d/notes.md"}]
    /\ wholefile = TRUE
    /\ contents = view.text
    /\ frontmatter = EmptyFrontMatter
    /\ body = <<>>
    /\ convs = [image |-> "unread", file |-> "unread"]
    /\ rewrittenBy = [img |-> <<>>, file |-> <<>>]
    /\ trace = <<"select", "references", "preprocess">>
    /\ errors = <<>>
    /\ status = <<>>
    /\ procs = <<>>
    /\ env = NotAsked
    /\ exc = "none"
    /\ result = NoResult
    /\ editor = NoEditor
    /\ pipe = NoPipe

OnlineNext == ConvertOnline

SpecOnline == OnlineInit /\ [][OnlineNext]_vars

(***************************************************************************)
(* The end of run on its own: convert_markdown has returned some body, and *)
(* run goes on to build the html from the meta data, the view's names and  *)
(* the template file.                                                      *)
(***************************************************************************)
\* converted HTML, the sentinel, nothing, HTML that spells the placeholders
Bodies ==
    { HTML, CANNOT_CONVERT, <<>>, <<"<p>", HEAD_PLACEHOLDER, BODY_PLACEHOLDER, "</p>">> }

AssembleInit ==
    /\ pc = "assemble"
    /\ backend \in Backends
    /\ settings \in [strip_yaml_front_matter : {TRUE},
                     html_simple : BOOLEAN,
                     references : {<<>>},
                     token : {"tok"},
                     meta : [title : TitleValues, lines : {<<>>, << <<"k: v">> >>}]]
    /\ view \in [text : {PlainText}, sel : {<<>>}, name : ViewNames,
                 file_name : FileNames]
    /\ wholefile = TRUE
    /\ contents = PlainText
    /\ frontmatter = EmptyFrontMatter
    /\ body \in Bodies
    /\ convs = [image |-> "none", file |-> "none"]
    /\ rewrittenBy = [img |-> <<>>, file |-> <<>>]
    /\ trace = <<"select", "frontmatter", "references", "preprocess", "convert",
                 "postprocess">>
                \o (IF settings.html_simple THEN <<"simple">> ELSE <<>>)
    /\ errors = <<>>
    /\ status = <<>>
    /\ procs = <<>>
    /\ \E text \in TemplateFiles : env = [NotAsked EXCEPT !.template_text = text]
    /\ exc = "none"
    /\ result = NoResult
    /\ editor = NoEditor
    /\ pipe = NoPipe

AssembleNext == Assemble

SpecAssemble == AssembleInit /\ [][AssembleNext]_vars

(***************************************************************************)
(* Properties.                                                             *)
(***************************************************************************)
Range(t) == {t[i] : i \in 1..Len(t)}

LastStage == IF trace = <<>> THEN "none" ELSE trace[Len(trace)]

\* the text get_contents starts from
Source == select_source(view, wholefile)

\* the environment's answer made the conversion fail
ConvertFailed ==
    \/ env.net \in {"http", "other"}
    \/ env.net = "urlerror" /\ env.curl # "ok"
    \/ env.entry \in {"absent", "empty", "nonexistent"}
    \/ env.entry = "exists" /\ env.exit # 0

\* C1: for every backend and every failure of the backend or of a stage, run
\* ends by returning its pair: no exception leaves run.
C1_RunNeverRaises == exc = "none"

\* C2: whenever parser_specific_convert fails to obtain HTML, it returns
\* exactly the sentinel 'cannot convert markdown' (and returns at all).
C2_FailureGivesSentinel ==
    (LastStage = "convert" /\ ConvertFailed)
        => (exc = "none" /\ body = CANNOT_CONVERT)

StageOrder ==
    <<"select", "frontmatter", "references", "critic", "preprocess", "convert",
      "postprocess", "absolute", "relative", "base64", "simple", "assemble">>

StageRank(s) == CHOOSE i \in 1..Len(StageOrder) : StageOrder[i] = s

\* C3: the stages of run happen in the order source selection, front matter,
\* references, critic marks, preprocess hook, convert, postprocess hook,
\* absolute, relative, base64, attribute stripping, assembly, each at most
\* once; a run that returns has gone through every unconditional stage, and
\* through front matter and attribute stripping exactly when they are enabled.
C3_StagesInOrder ==
    /\ \A i \in 1..(Len(trace) - 1) :
          StageRank(trace[i]) < StageRank(trace[i + 1])
    /\ pc = "done" =>
          /\ {"select", "references", "preprocess", "convert", "postprocess",
              "assemble"} \subseteq Range(trace)
          /\ ("frontmatter" \in Range(trace)) = settings.strip_yaml_front_matter
          /\ ("simple" \in Range(trace)) = settings.html_simple

\* a returned run in which eleven stages ran (absolute, relative and base64
\* cannot all three be configured)
C3_ElevenStagesRan == pc = "done" /\ Len(trace) = 11

\* C4: external backend: with no entry in markdown_binary_map, an empty entry
\* or an executable that does not exist, convert reports 'binary not found',
\* returns the sentinel and starts no process.
C4_MissingBinaryReported ==
    (LastStage = "convert" /\ env.entry \in {"absent", "empty", "nonexistent"})
        => /\ exc = "none"
           /\ errors = <<[msg |-> "cannot_find_binary", server |-> FALSE]>>
           /\ body = CANNOT_CONVERT
           /\ procs = <<>>

\* the text handed to the reference loop
BeforeReferences ==
    IF settings.strip_yaml_front_matter
    THEN preprocessor_yaml_frontmatter(Source).text
    ELSE Source

\* the texts of the readable files among refs, in list order
RECURSIVE ReadableTexts(_, _, _)
ReadableTexts(refs, fstates, i) ==
    IF i > Len(refs) THEN <<>>
    ELSE (IF fstates[i] = "ok" THEN RefText(refs[i]) ELSE <<>>)
         \o ReadableTexts(refs, fstates, i + 1)

\* C5: the contents of every reference file are appended in list order; a
\* file that is missing or unreadable adds nothing, the others are still
\* appended, and the run goes on.
C5_MissingReferenceSkipped ==
    LastStage = "references"
        => /\ exc = "none"
           /\ contents = BeforeReferences
                         \o ReadableTexts(settings.references, env.files, 1)

\* C6: on a transport failure curl is started exactly once; if that fails
\* too, the failure is reported to the user and the sentinel is returned.
C6_CurlFallbackReported ==
    (LastStage = "convert" /\ env.net = "urlerror")
        => /\ procs = <<"curl">>
           /\ env.curl # "ok"
                 => (exc = "none" /\ errors # <<>> /\ body = CANNOT_CONVERT)

MessageForStatus(code) ==
    CASE code = 401 -> "authentication_failed_check_token"
      [] code = 403 -> "rate_limit_guidance"
      [] OTHER -> "responded_unfriendly"

\* C7: for both remote backends an HTTP error gives the sentinel and exactly
\* one error message chosen by the status code, followed by the server's
\* message; the success status message appears only when no error occurred.
C7_HttpErrorMessage ==
    (LastStage = "convert" /\ backend \in OnlineBackends)
        => /\ env.net = "http"
                 => /\ exc = "none"
                    /\ body = CANNOT_CONVERT
                    /\ errors = <<[msg |-> MessageForStatus(env.code),
                                   server |-> TRUE]>>
           /\ "converted" \in Range(status) => env.net = "ok"

\* the block of the source text and what it parses to
SourceMatch == FrontMatterMatch(Source)
SourceParse == yaml_load(SourceMatch.group2).kind

\* C8 as stated: the block is removed only when it parsed as a mapping; in
\* every other case the result is an empty front matter and the original text.
C8_RemovedOnlyIfMapping ==
    LastStage = "frontmatter"
        => LET mapping == SourceMatch.found /\ SourceParse = "mapping"
           IN  /\ contents # Source => mapping
               /\ ~mapping => (contents = Source /\ frontmatter = EmptyFrontMatter)

\* C8 as amended: the block is removed only when it parsed as a mapping or as
\* an empty (null) document, which counts as an empty mapping; when there is
\* no match, a parse error or a value that is neither, the result is an empty
\* front matter and the original text, unchanged.
C8_RemovedOnlyIfMappingOrNull ==
    LastStage = "frontmatter"
        => LET accepted == SourceMatch.found /\ SourceParse \in {"mapping", "null"}
           IN  /\ contents # Source => accepted
               /\ ~accepted => (contents = Source /\ frontmatter = EmptyFrontMatter)
               /\ (SourceMatch.found /\ SourceParse = "null")
                     => frontmatter = EmptyFrontMatter

\* an empty (null) block was met and removed from a text that goes on after it
C8_NullBlockRemoved ==
    /\ LastStage = "frontmatter"
    /\ SourceMatch.found
    /\ SourceParse = "null"
    /\ frontmatter = EmptyFrontMatter
    /\ contents # Source
    /\ contents # <<>>

Fences == {"---", "..."}

\* a close fence line: a fence at the start of a line, followed by a line end
IsCloseLine(t, c) == At(t, c) \in Fences /\ At(t, c - 1) = NL /\ At(t, c + 1) = NL

PassOrder == <<"absolute", "relative", "base64">>

PassRank(s) == CHOOSE i \in 1..Len(PassOrder) : PassOrder[i] = s

\* the path passes that ran, in the order they ran
PassesRun == SelectSeq(trace, LAMBDA s : s \in Range(PassOrder))

\* C10: for every pair of path modes, each resource class (images, file
\* links) is rewritten by at most one of the passes absolute, relative,
\* base64, and only by the pass of its own mode; the passes run in the order
\* absolute, relative, base64; a class set to 'none' is rewritten by no pass.
C10_OnePassPerClass ==
    /\ \A k \in {"img", "file"} : Len(rewrittenBy[k]) <= 1
    /\ Range(rewrittenBy.img) \subseteq {convs.image}
    /\ Range(rewrittenBy.file) \subseteq {convs.file}
    /\ convs.image = "none" => rewrittenBy.img = <<>>
    /\ convs.file = "none" => rewrittenBy.file = <<>>
    /\ \A i \in 1..(Len(PassesRun) - 1) :
          PassRank(PassesRun[i]) < PassRank(PassesRun[i + 1])

\* images made relative and file links made absolute in one conversion
C10_BothClassesRewritten ==
    /\ pc = "done"
    /\ convs = [image |-> "relative", file |-> "absolute"]
    /\ rewrittenBy = [img |-> <<"relative">>, file |-> <<"absolute">>]
    /\ PassesRun = <<"absolute", "relative">>

\* everything run can put around the body
Wrapping ==
    Range(ShellOpen) \cup Range(ArticleOpen) \cup Range(ArticleClose)
    \cup Range(HeadParts(settings, view, backend))
    \cup Range(env.template_text)
    \cup {HIGHLIGHT_SCRIPT}

\* C11: with html_simple enabled run returns fullHtml equal to bodyHtml: no
\* shell, no template, no meta, style sheet, script, highlight style or title
\* is added, for every backend and whatever the template setting is.
C11_SimpleGivesBody ==
    (result.returned /\ settings.html_simple)
        => /\ result.html = result.body
           /\ result.body = body
           /\ Range(result.html) \cap Wrapping = {}

\* a GitLab conversion in simple mode while a template file exists
C11_SimpleWithTemplate ==
    /\ result.returned
    /\ settings.html_simple
    /\ backend = "gitlab"
    /\ env.template = "exists"
    /\ result.html = HTML

\* C12: GitHub backend with github_inject_header_ids and html_simple both
\* enabled: the injection runs before the attributes are stripped, so the
\* final fragment holds none of the injected ids.
C12_InjectedIdsStripped ==
    (backend = "github" /\ env.inject = "on" /\ settings.html_simple)
        => /\ \A i \in 1..Len(trace) :
                 trace[i] = "simple" => \E j \in 1..(i - 1) : trace[j] = "postprocess"
           /\ "simple" \in Range(trace) => \A i \in 1..Len(body) : ~HasId(body[i])
           /\ result.returned => \A i \in 1..Len(result.body) : ~HasId(result.body[i])

\* a heading was given an id by the injection and the run returned it bare
C12_HeadingStripped ==
    /\ backend = "github"
    /\ env.inject = "on"
    /\ settings.html_simple
    /\ env.net = "ok"
    /\ result.returned
    /\ result.body = <<Heading("t")>>

\* the id attribute of an element that has one
IdOf(e) == CHOOSE id \in HeaderIds : \E t \in HeadingTexts : e = HeadingWithId(t, id)

\* the slug of the i-th heading the backend returned
SlugAt(i) == uslugify(TextOf(env.html[i]))

\* C16: header-id injection: of the headings with one and the same non-empty
\* slug the first gets the slug as its id, and every later one gets the slug
\* with a numeric suffix, an id distinct from those of all earlier ones.
C16_RepeatedHeadingsSuffixed ==
    (LastStage = "postprocess" /\ env.inject = "on")
        => /\ Len(body) = Len(env.html)
           /\ \A i \in 1..Len(body) :
                 SlugAt(i) # "" =>
                    LET earlier == {j \in 1..(i - 1) : SlugAt(j) = SlugAt(i)}
                    IN  /\ HasId(body[i])
                        /\ earlier = {} => IdOf(body[i]) = SlugAt(i)
                        /\ earlier # {} =>
                              /\ \E n \in 1..MaxHeadings :
                                    IdOf(body[i]) = Suffixed(SlugAt(i), n)
                              /\ \A j \in earlier : IdOf(body[j]) # IdOf(body[i])

\* three headings with one slug got the ids t, t-1, t-2
C16_ThreeAlike ==
    /\ LastStage = "postprocess"
    /\ env.inject = "on"
    /\ env.html = <<Heading("t"), Heading("T"), Heading("t")>>
    /\ body = <<HeadingWithId("t", "t"), HeadingWithId("T", "t-1"),
                HeadingWithId("t", "t-2")>>

\* run has returned the default document shell
DefaultShell == result.returned /\ ~settings.html_simple /\ env.template # "exists"

\* the text between <title> and </title> of the head of the default shell
TitleIn(html) == html[1 + CHOOSE i \in 1..Len(html) : html[i] = "<title>"]

\* the title by strict preference: the explicit title, else the display name,
\* else the file name stem, else 'untitled'
PreferredTitle ==
    LET v == settings.meta.title
    IN  IF v.kind = "list" THEN (IF v.value = <<>> THEN "" ELSE v.value[1])
        ELSE IF v.kind = "scalar" THEN v.value[1]
        ELSE IF view.name # "" THEN view.name
        ELSE IF view.file_name # "" THEN Stem(view.file_name)
        ELSE "untitled"

\* C13: the title is the explicit 'title' meta value if there is one (its
\* first element if a list, the empty string if the list is empty), else the
\* view's display name, else the file name stem, else 'untitled'.
C13_TitleByPreference ==
    DefaultShell => TitleIn(result.html) = cgi_escape(PreferredTitle)

\* the place of the first x in t, 0 when there is none
FirstIndex(t, x) ==
    IF \E i \in 1..Len(t) : t[i] = x
    THEN CHOOSE i \in 1..Len(t) : t[i] = x /\ \A k \in 1..(i - 1) : t[k] # x
    ELSE 0

\* t with its i-th element replaced by the sequence new; t itself when i = 0
Splice(t, i, new) ==
    IF i = 0 THEN t ELSE Slice(t, 1, i - 1) \o new \o Slice(t, i + 1, Len(t))

\* meta, style sheet, script, highlight style, title
OrderedHead ==
    get_meta(settings).html
    \o get_stylesheet(backend)
    \o get_javascript(backend)
    \o get_highlight(backend)
    \o get_title(get_meta(settings).meta_title, view)

\* the template file with its first HEAD placeholder filled in
TemplateWithHead ==
    Splice(env.template_text, FirstIndex(env.template_text, HEAD_PLACEHOLDER),
           OrderedHead)

\* C14: with simple mode off the head is meta, style sheet, script, highlight
\* style, title, in this order, the same in the template and in the default
\* shell; the template is used iff one is configured and its file exists;
\* only the first HEAD placeholder and then only the first BODY placeholder
\* are replaced, every later one stays as it is.
C14_HeadOrderAndTemplate ==
    (result.returned /\ ~settings.html_simple)
        => IF env.template = "exists"
           THEN result.html =
                    Splice(TemplateWithHead,
                           FirstIndex(TemplateWithHead, BODY_PLACEHOLDER), body)
           ELSE result.html =
                    ShellOpen \o OrderedHead \o ArticleOpen \o body \o ArticleClose

\* a template with each placeholder twice: the second ones are still there
C14_SecondPlaceholdersStay ==
    /\ result.returned
    /\ ~settings.html_simple
    /\ env.template = "exists"
    /\ env.template_text = <<HEAD_PLACEHOLDER, HEAD_PLACEHOLDER,
                             BODY_PLACEHOLDER, BODY_PLACEHOLDER>>
    /\ body = HTML
    /\ result.html = OrderedHead \o <<HEAD_PLACEHOLDER>> \o HTML \o <<BODY_PLACEHOLDER>>

\* b occurs in h, verbatim and in one piece
Occurs(b, h) == \E i \in 0..(Len(h) - Len(b)) : Slice(h, i + 1, i + Len(b)) = b

\* b is wrapped in the article element, inside <body>
WrappedIn(b, h) ==
    Occurs(<<"</head><body>", "<article class=\"markdown-body\">">>
           \o b \o <<"</article>", "</body>">>, h)

\* C19 as stated: bodyHtml occurs verbatim inside fullHtml for every result of
\* run: equal to it in simple mode, wrapped in the article element inside
\* <body> in the default shell, inserted in the template in template mode,
\* for every template file and every body.
C19_BodyInsideHtml ==
    result.returned
        => /\ result.body = body
           /\ Occurs(result.body, result.html)
           /\ settings.html_simple => result.html = result.body
           /\ DefaultShell => WrappedIn(result.body, result.html)

\* C19 as amended: the same, except that in template mode the body is inside
\* fullHtml when the template file holds a BODY placeholder; with a template
\* file that holds none, fullHtml is the template with at most its head
\* filled in, and the body is inserted only where the head content itself
\* spells the placeholder.
C19_BodyInsideHtmlGivenPlaceholder ==
    result.returned
        => /\ result.body = body
           /\ settings.html_simple => result.html = result.body
           /\ DefaultShell => WrappedIn(result.body, result.html)
           /\ (~settings.html_simple /\ env.template = "exists")
                 => /\ BODY_PLACEHOLDER \in Range(env.template_text)
                          => Occurs(result.body, result.html)
                    /\ BODY_PLACEHOLDER \notin Range(TemplateWithHead)
                          => result.html = TemplateWithHead

\* the sentinel body, put into a template with one placeholder of each kind
C19_SentinelInTemplate ==
    /\ result.returned
    /\ ~settings.html_simple
    /\ env.template = "exists"
    /\ env.template_text = TemplateFile
    /\ result.body = CANNOT_CONVERT
    /\ result.html = <<"<html>">> \o OrderedHead \o CANNOT_CONVERT \o <<"</html>">>

\* C15: during one run the configuration is modified by the front-matter
\* overlay only, the overlay comes before any stage that reads another value
\* than the strip_yaml_front_matter switch, and no stage from the references
\* on (the backend's convert included) writes to the configuration.
C15_OnlyOverlayWrites ==
    [][settings' # settings => (pc = "frontmatter" /\ trace = <<"select">>)]_vars

\* C17: for each remote backend and every token value the request of the
\* curl fallback is equivalent to the primary request: same URL, same body,
\* same Content-Type, and an authorization header under the same condition,
\* with the same name and the same value (GitHub 'Authorization: token
\* <value>', GitLab 'Private-Token: <value>').
C17_CurlRequestEquivalent ==
    \A i, j \in 1..Len(env.requests) :
        (env.requests[i].via = "urlopen" /\ env.requests[j].via = "curl")
            => /\ env.requests[j].url = env.requests[i].url
               /\ env.requests[j].body = env.requests[i].body
               /\ env.requests[j].content_type = env.requests[i].content_type
               /\ env.requests[j].auth = env.requests[i].auth
               /\ env.requests[j].auth # <<>> =>
                     env.requests[j].auth[1] =
                        [name |-> authentication_api_key(backend),
                         value |-> IF backend = "github"
                                   THEN "token " \o settings.token
                                   ELSE settings.token]

\* C18 as stated: the text of the first selection is used iff whole-document
\* mode is not requested and that selection is non-empty; in every other case
\* the full document text is used.
C18_SelectionIffNonEmpty ==
    LastStage = "select"
        => IF ~wholefile /\ view.sel # <<>>
           THEN contents = view.sel
           ELSE contents = view.text

\* C18 as amended: the text of the first selection is used iff whole-document
\* mode is not requested and that selection holds a character that is not
\* white space; in every other case, a selection of white space alone
\* included, the full document text is used.
C18_SelectionIffNotBlank ==
    LastStage = "select"
        => IF ~wholefile /\ (\E i \in 1..Len(view.sel) : view.sel[i] \notin {NL, CR})
           THEN contents = view.sel
           ELSE contents = view.text

\* a selection of one line break was passed over for the document text
C18_BlankSelectionIgnored ==
    /\ LastStage = "select"
    /\ ~wholefile
    /\ view.sel = <<NL>>
    /\ contents = view.text
    /\ contents # view.sel

\* C20: after any sequence of markdown_preview commands and saves on a view,
\* a save of a markdown file re-runs the conversion only if autoreload is
\* enabled and the view's preview file exists already; the re-run has the
\* target 'disk' and the parser of the most recent markdown_preview command
\* on the view; a save without a preview file triggers no conversion.
C20_SaveRerunsOnlyWithPreview ==
    editor.last_save.seen
        => /\ editor.last_save.triggered
                 => /\ editor.enable_autoreload
                    /\ editor.markdown_file
                    /\ editor.last_save.file_existed
                    /\ editor.last_save.target = "disk"
                    /\ editor.last_save.parser = editor.last_save.recorded
           /\ ~editor.last_save.file_existed => ~editor.last_save.triggered
           /\ (editor.last_command.by = "save" /\ editor.last_save.triggered)
                 => /\ editor.last_command.target = "disk"
                    /\ editor.last_command.parser = editor.last_save.recorded

\* a save re-ran the conversion with the parser of the last command, github
C20_SaveReranGithub ==
    /\ editor.last_save.triggered
    /\ editor.last_save.recorded = "github"
    /\ editor.last_command =
          [by |-> "save", parser |-> "github", target |-> "disk",
           compiler |-> "GithubCompiler", outcome |-> "returned", livereload |-> TRUE]

\* C21: when the parser in use is a remote one (github or gitlab) and its
\* authentication token is not set, a save never triggers a re-conversion and
\* to_disk never appends the LiveReload script.
C21_RemoteNeedsToken ==
    LET remote == {"github", "gitlab"}
    IN  settings.token = "None"
            => /\ ~(editor.last_save.triggered /\ editor.last_save.parser \in remote)
               /\ ~(editor.last_command.livereload
                      /\ editor.last_command.parser \in remote)

\* C22: with pipes of any finite capacity and a child that is a well-behaved
\* filter, there is no reachable state in which the parent is blocked writing
\* a line to the child's stdin while the child is blocked writing to a full
\* stdout pipe that the parent has not started to drain.
C22_NoPipeDeadlock ==
    ~ /\ pipe.parent = "write"
      /\ pipe.to_write > 0
      /\ pipe.stdin = pipe.capacity
      /\ pipe.child = "running"
      /\ pipe.pending > 0
      /\ pipe.stdout = pipe.capacity

\* C23: for every sequence of attribute-less headings in one fragment the ids
\* injected by header-id injection are pairwise distinct, also when a
\* heading's own slug is the suffixed id of an earlier duplicate; headings
\* whose slug is empty are left unchanged.
C23_InjectedIdsDistinct ==
    (LastStage = "postprocess" /\ env.inject = "on")
        => /\ Len(body) = Len(env.html)
           /\ \A i \in 1..Len(body) :
                 IF SlugAt(i) = "" THEN body[i] = env.html[i]
                 ELSE /\ HasId(body[i])
                      /\ \A j \in 1..(i - 1) :
                            SlugAt(j) # "" => IdOf(body[j]) # IdOf(body[i])

\* the template file with its own first HEAD placeholder replaced by the head
\* and its own first BODY placeholder replaced by the body
TemplateFilled ==
    LET t == env.template_text
        head == OrderedHead
        h == FirstIndex(t, HEAD_PLACEHOLDER)
        b == FirstIndex(t, BODY_PLACEHOLDER)
    IN  IF h < b
        THEN Splice(Splice(t, b, body), h, head)
        ELSE Splice(Splice(t, h, head), b, body)

\* C24: in template mode the body is inserted at the position of the template
\* file's own first BODY placeholder, whatever the head content is:
\* placeholder text inside the generated head is never the place where the
\* body is substituted, and placeholder text inside the body is never
\* substituted again.
C24_BodyAtTemplatePlaceholder ==
    (result.returned /\ ~settings.html_simple /\ env.template = "exists")
        => result.html = TemplateFilled

====
